---- MODULE Spec2Model ----
(***************************************************************************)
(* Kerrareg: the Module and Version reconcilers, the storage backend they  *)
(* drive, the latest-version computation and the Depot constraint pass.    *)
(*                                                                         *)
(* One Module object and its child Version objects live in the cluster     *)
(* API.  Each reconcile is split at its cluster-API reads so that the      *)
(* other reconciler and the cluster's users can act in between.  A copy    *)
(* of an object held by a reconciler goes stale when somebody else writes  *)
(* the object; an Update carrying a stale resourceVersion is a conflict.   *)
(***************************************************************************)
EXTENDS Integers, Sequences, FiniteSets, TLC

VARIABLES
    config,     \* Module.spec.moduleConfig: name, immutable, storage backend
    module,     \* the Module object: spec.versions and status
    children,   \* the Version objects of the cluster, by sanitised version
    storage,    \* the storage backend: path -> checksum of the stored archive
    upstream,   \* checksum of the archive the upstream serves for each ref
    mr,         \* the Module reconciler's worker: position and locals
    vr,         \* the Version reconciler's worker: position and locals
    attempted,  \* history: a storage Delete was issued for the Version
    env,        \* how many more times the surroundings may act
    fn          \* input and result of the pure computations

vars == <<config, module, children, storage, upstream, mr, vr, attempted, env, fn>>

clusterVars == <<config, module, children, storage, upstream, mr, vr, attempted, env>>

----------------------------------------------------------------------------
(* Bounds of the model. *)

MaxFiles == 3       \* distinct generated file names that can be in use at once

MaxEnv == 2         \* acts of the surroundings (users, upstream, API failures)

MaxLen == 3         \* longest spec.versions list given to getLatestVersion

MaxMinor == 2       \* largest minor number of a version given to getLatestVersion

MaxConstraints == 3 \* constraints in one versionConstraints expression

MaxLimit == 1       \* largest versionHistoryLimit of a Module

----------------------------------------------------------------------------
(* Names and values. *)

Nil == "nil"

ModuleName == "m"       \* metadata.name of the Module object

AltName == "alt"        \* a moduleConfig.name that differs from metadata.name

Checksums == {"A", "B"}

FileIds == 1..MaxFiles

\* A version string: an optional leading 'v' and the three numbers.
Ver(v, a, b, c) == [v |-> v, sem |-> <<a, b, c>>]

\* The empty string, as a version string.
EmptyStr == [v |-> FALSE, sem |-> <<>>]

\* The version strings a user lists on the Module of the cluster model.
ClusterVersions == {Ver(TRUE, 1, 0, 0), Ver(FALSE, 1, 1, 0)}

----------------------------------------------------------------------------
(* Pure helpers of the Module reconciler. *)

sanitizeModuleVersion(version) ==
    IF version.v THEN [version EXCEPT !.v = FALSE] ELSE version

Keys == {sanitizeModuleVersion(x) : x \in ClusterVersions}

\* moduleName is assigned moduleConfig.name and then overwritten by the
\* object's name.
getModuleName(cfg) == ModuleName

\* The prefix of the child's object name; the sanitised version follows it.
getModuleVersionName(cfg, sanitized) ==
    IF cfg.name = Nil THEN <<ModuleName, sanitized>> ELSE <<cfg.name, sanitized>>

\* semver.Compare: an invalid string (the empty one) sorts before a valid one.
SemLess(x, y) ==
    IF x.sem = <<>> THEN y.sem # <<>>
    ELSE IF y.sem = <<>> THEN FALSE
    ELSE \/ x.sem[1] < y.sem[1]
         \/ x.sem[1] = y.sem[1] /\ x.sem[2] < y.sem[2]
         \/ x.sem[1] = y.sem[1] /\ x.sem[2] = y.sem[2] /\ x.sem[3] < y.sem[3]

\* The 'v' is prefixed when absent; semver.Canonical keeps vX.Y.Z as it is.
Canonical(version) == [version EXCEPT !.v = TRUE]

\* The slice getLatestVersion and versionsToKeep sort: make([]string, n) gives
\* n empty strings, the canonical versions are appended after them.
SemverStrings(versions) ==
    [i \in 1..Len(versions) |-> EmptyStr] \o
    [i \in 1..Len(versions) |-> Canonical(versions[i])]

\* The last element of the slice after semver.Sort: one no other exceeds.
SortedLast(s) ==
    CHOOSE x \in {s[i] : i \in 1..Len(s)} :
        \A j \in 1..Len(s) : ~SemLess(x, s[j])

getLatestVersion(versions) == SortedLast(SemverStrings(versions))

\* semver.Sort: ascending, the empty strings first.
RECURSIVE SemverSort(_)
SemverSort(s) ==
    IF Len(s) = 0 THEN <<>>
    ELSE LET x == SortedLast(s)
             i == CHOOSE j \in 1..Len(s) : s[j] = x
         IN  SemverSort(SubSeq(s, 1, i - 1) \o SubSeq(s, i + 1, Len(s))) \o <<x>>

NoLimit == -1       \* a nil versionHistoryLimit

\* versions[len(versions)-versionHistoryLimit:] is out of range when the limit
\* exceeds the length of the sorted slice, empty strings included.
versionsToKeepPanics(versions, limit) == limit > 2 * Len(versions)

\* versionsToKeep: nil for a limit of zero or less, else the last limit
\* entries of the sorted slice of empty and canonical strings.
versionsToKeep(versions, limit) ==
    IF limit <= 0 THEN <<>>
    ELSE LET sorted == SemverSort(SemverStrings(versions))
         IN  SubSeq(sorted, Len(sorted) - limit + 1, Len(sorted))

\* moduleVersionsToKeep: make([]ModuleVersion, len(versions)) and the kept
\* versions appended to it, as the list of their version strings.
moduleVersionsToKeep(versions, limit) ==
    LET kept == versionsToKeep(versions, limit)
    IN  [i \in 1..Len(kept) |-> EmptyStr] \o kept

----------------------------------------------------------------------------
(* Cluster objects. *)

NoFile == 0         \* a nil *string file name

NoRef == -1         \* no entry under the key in status.moduleVersionRefs

NoRefs == [v \in ClusterVersions |-> NoRef]

\* The slot of a Version object that is not in the cluster.
NoObj ==
    [exists |-> FALSE, finalizer |-> FALSE, deleting |-> FALSE,
     fileName |-> NoFile, version |-> EmptyStr, mcrName |-> Nil, mcrFull |-> FALSE,
     pcr |-> FALSE, checksum |-> Nil, synced |-> FALSE, syncStatus |-> ""]

\* The Version the Module reconciler builds: no finalizer, a moduleConfigRef
\* that carries the name only, file name and version as given.
versionForModule(cfg, moduleVersionFileName, version) ==
    [exists |-> TRUE, finalizer |-> FALSE, deleting |-> FALSE,
     fileName |-> moduleVersionFileName, version |-> version,
     mcrName |-> getModuleName(cfg), mcrFull |-> FALSE,
     pcr |-> FALSE, checksum |-> Nil, synced |-> FALSE, syncStatus |-> ""]

\* What the API server stores for r.Update(obj) over the stored object old:
\* metadata and spec come from obj, the status subresource and the deletion
\* timestamp stay; an object under deletion without finalizers is dropped.
ApiUpdate(old, obj) ==
    LET new == [obj EXCEPT !.checksum = old.checksum, !.synced = old.synced,
                           !.syncStatus = old.syncStatus, !.deleting = old.deleting]
    IN IF new.deleting /\ ~new.finalizer THEN NoObj ELSE new

\* What the API server stores for r.Delete(obj): the deletion timestamp when a
\* finalizer holds the object, nothing otherwise.
ApiDelete(old) ==
    IF old.finalizer THEN [old EXCEPT !.deleting = TRUE] ELSE NoObj

\* The file names in use anywhere: a generated UUIDv7 differs from all of them.
UsedFiles ==
    {module.refs[v] : v \in ClusterVersions}
    \cup {children[k].fileName : k \in Keys}
    \cup {p[2] : p \in {q \in DOMAIN storage : storage[q] # Nil}}
    \cup {mr.refs[v] : v \in ClusterVersions}
    \cup {mr.childFile, vr.obj.fileName, vr.modFile}

generateFileName == CHOOSE f \in FileIds \ UsedFiles : \A g \in FileIds \ UsedFiles : f <= g

MrIdle ==
    [pc |-> "idle", idx |-> 0, versions |-> <<>>, spec |-> <<>>, refs |-> NoRefs,
     childFile |-> NoFile, childStale |-> FALSE, result |-> "none", had |-> {}]

VrIdle ==
    [pc |-> "idle", key |-> EmptyStr, obj |-> NoObj, modFile |-> NoFile,
     stale |-> FALSE, result |-> "none", ops |-> <<>>, dropped |-> FALSE,
     fetched |-> FALSE]

\* The Module reconcile returns: what it returned is observed before the
\* worker takes the next request.
MrDone(result) == [mr EXCEPT !.pc = "done", !.result = result]

\* The Version reconcile returns, having handed the methods ops to storage.
VrDone(result, ops) == [vr EXCEPT !.pc = "done", !.result = result, !.ops = ops]

\* No reconcile is at its return.
Quiet == mr.pc # "done" /\ vr.pc # "done"

\* The copy of a Version the Version reconciler holds goes stale when the
\* stored object changes under it.
VrSees(newChildren) ==
    IF vr.pc = "run" /\ newChildren[vr.key] # children[vr.key]
    THEN [vr EXCEPT !.stale = TRUE] ELSE vr

\* The child the Module reconciler is working on.
MrKey == sanitizeModuleVersion(mr.versions[mr.idx])

\* The copy of the child the Module reconciler holds goes stale likewise.
MrSees(newChildren) ==
    IF mr.pc = "update" /\ newChildren[MrKey] # children[MrKey]
    THEN [mr EXCEPT !.childStale = TRUE] ELSE mr

Range(s) == {s[i] : i \in 1..Len(s)}

----------------------------------------------------------------------------
(* The state after the user created the Module: no Version, empty storage. *)

Configs ==
    [name : {Nil, AltName}, immutable : BOOLEAN, backend : {"s3", "fs"},
     limit : {NoLimit}]

\* The spec.versions the Module is created with.
SpecVersions == {<<Ver(TRUE, 1, 0, 0)>>, <<Ver(TRUE, 1, 0, 0), Ver(FALSE, 1, 1, 0)>>}

InitModule(configs, specs, forceSyncs, budget) ==
    /\ config \in configs
    /\ \E vs \in specs, force \in forceSyncs :
          module = [versions |-> vs, forceSync |-> force, refs |-> NoRefs,
                    latest |-> EmptyStr, synced |-> FALSE]
    /\ children = [k \in Keys |-> NoObj]
    /\ storage = [p \in {ModuleName, AltName} \X FileIds |-> Nil]
    /\ upstream = [k \in Keys |-> "A"]
    /\ mr = MrIdle
    /\ vr = VrIdle
    /\ attempted = [k \in Keys |-> FALSE]
    /\ env = budget

\* The same with spec.forceSync unset.
InitCluster(configs, specs, budget) == InitModule(configs, specs, {FALSE}, budget)

Init == InitCluster(Configs, SpecVersions, MaxEnv) /\ fn = [pc |-> "off"]

----------------------------------------------------------------------------
(* The Module reconciler. *)

\* Reconcile, up to the loop over spec.versions: the Module is read.  had
\* remembers the versions of spec.versions whose child was in the cluster,
\* with its file name in status.moduleVersionRefs, when the pass began.
ModuleReconcileBegin ==
    /\ Quiet
    /\ mr.pc = "idle"
    /\ mr' = [MrIdle EXCEPT !.pc = "loop", !.idx = 1,
                                    !.versions = module.versions, !.spec = module.versions,
                                    !.had = {v \in Range(module.versions) :
                                                /\ children[sanitizeModuleVersion(v)].exists
                                                /\ module.refs[v] \notin {NoRef, NoFile}}]
    /\ UNCHANGED <<config, module, children, storage, upstream, vr, attempted, env, fn>>

\* The loop body up to the branch on the child's Get.  When the Get fails
\* (the child is not there, or the read itself failed) the body runs its
\* create branch: a file name is generated, the accumulated map is written to
\* the Module's status, and the creation loop re-reads the child, whose Get
\* error (not found) ends the loop before r.Create; a child that is there has
\* a resourceVersion, which ends it as well.
ModuleReconcileGetChild ==
    /\ Quiet
    /\ mr.pc = "loop"
    /\ mr.idx <= Len(mr.versions)
    /\ \E readFails \in BOOLEAN :
          /\ readFails => env > 0 /\ children[MrKey].exists
          /\ env' = IF readFails THEN env - 1 ELSE env
          /\ IF readFails \/ ~children[MrKey].exists
             THEN /\ FileIds \ UsedFiles # {}
                  /\ LET refs == [mr.refs EXCEPT ![mr.versions[mr.idx]] = generateFileName]
                     IN /\ module' = [module EXCEPT !.refs = refs, !.synced = TRUE]
                        /\ mr' = [mr EXCEPT !.refs = refs, !.spec = module.versions,
                                            !.idx = mr.idx + 1]
             ELSE /\ mr' = [mr EXCEPT !.pc = "update",
                                      !.childFile = children[MrKey].fileName,
                                      !.childStale = FALSE]
                  /\ UNCHANGED module
    /\ UNCHANGED <<config, children, storage, upstream, vr, attempted, fn>>

\* The child-exists branch: the rebuilt Version, carrying the resourceVersion
\* of the first read, replaces the stored one.  A conflict repeats on every
\* retry, since the same resourceVersion is sent again, and ends the reconcile.
ModuleReconcileUpdateChild ==
    /\ Quiet
    /\ mr.pc = "update"
    /\ IF mr.childStale \/ ~children[MrKey].exists
       THEN /\ mr' = MrDone(IF children[MrKey].exists THEN "conflict" ELSE "err")
            /\ UNCHANGED <<children, vr>>
       ELSE LET obj == versionForModule(config, mr.childFile, mr.versions[mr.idx])
                new == [children EXCEPT ![MrKey] = ApiUpdate(children[MrKey], obj)]
            IN /\ children' = new
               /\ vr' = VrSees(new)
               /\ mr' = [mr EXCEPT !.pc = "loop", !.idx = mr.idx + 1,
                                   !.refs[mr.versions[mr.idx]] = mr.childFile,
                                   !.childFile = NoFile, !.childStale = FALSE]
    /\ UNCHANGED <<config, module, storage, upstream, attempted, env, fn>>

\* The child Versions carrying the Module's labels whose version is no entry
\* of spec.versions are deleted.
ReconcileVersionRemovals(versions) ==
    [k \in Keys |->
        IF children[k].exists /\ children[k].version \notin Range(versions)
        THEN ApiDelete(children[k]) ELSE children[k]]

\* The forceSync reset: currentModule.Spec.ForceSync = false is assigned to
\* the zero value, r.Get then fills currentModule with the stored Module, and
\* r.Update stores it back.
ForceSyncUpdate(stored) ==
    LET zero == [stored EXCEPT !.forceSync = FALSE]
        currentModule == [zero EXCEPT !.forceSync = stored.forceSync]
    IN  currentModule

\* r.Get(ctx, req.NamespacedName, module) in the status closure: the stored
\* Module replaces the reconciler's object, its spec.versions included.
GetModule(local, stored) == stored.versions

\* After the loop: the latest version (indexing the empty slice panics when
\* spec.versions is empty, which ends the reconcile with an error), the
\* trimming of the local spec.versions to versionHistoryLimit, the forceSync
\* reset, the final status write on the Module as re-read, and the removal of
\* the children that are not in the spec.versions of that object.
ModuleReconcileFinish ==
    /\ Quiet
    /\ mr.pc = "loop"
    /\ mr.idx > Len(mr.versions)
    /\ IF \/ Len(mr.spec) = 0
          \/ config.limit # NoLimit /\ versionsToKeepPanics(mr.spec, config.limit)
       THEN /\ mr' = MrDone("err")
            /\ UNCHANGED <<module, children, vr>>
       ELSE LET local == IF config.limit # NoLimit
                         THEN moduleVersionsToKeep(mr.spec, config.limit)
                         ELSE mr.spec
                forced == IF module.forceSync THEN ForceSyncUpdate(module) ELSE module
                new == ReconcileVersionRemovals(GetModule(local, forced))
            IN /\ module' = [forced EXCEPT !.refs = mr.refs, !.synced = TRUE,
                                           !.latest = getLatestVersion(mr.spec)]
               /\ children' = new
               /\ vr' = VrSees(new)
               /\ mr' = MrDone("ok")
    /\ UNCHANGED <<config, storage, upstream, attempted, env, fn>>


----------------------------------------------------------------------------
(* The Version reconciler. *)

\* The name the Version reconciler writes into moduleConfigRef.name.
ModuleConfigRefName(cfg) == IF cfg.name = Nil THEN ModuleName ELSE cfg.name

\* {moduleName}/{fileName} below the storage prefix, with moduleName taken
\* from the Version's moduleConfigRef.
getModuleFilePath(mcrName, fileName) == <<mcrName, fileName>>

\* Reconcile, up to the branch on the deletion timestamp: the Version is read,
\* then the Module named by the Version's moduleConfigRef.name; the only
\* Module of the namespace is the one named ModuleName.
VersionReconcileBegin(k) ==
    /\ Quiet
    /\ vr.pc = "idle"
    /\ children[k].exists
    /\ vr' = [VrIdle EXCEPT !.pc = IF children[k].mcrName # ModuleName THEN "done" ELSE "run",
                             !.result = IF children[k].mcrName # ModuleName THEN "err" ELSE "none",
                             !.key = k, !.obj = children[k],
                             !.modFile = IF children[k].mcrName # ModuleName THEN NoRef
                                         ELSE module.refs[children[k].version]]
    /\ UNCHANGED <<config, module, children, storage, upstream, mr, attempted, env, fn>>

\* A finalizer update that sends the object of the first read.
AddFinalizerOnFirstRead(currentVersion, version) == [version EXCEPT !.finalizer = TRUE]

\* The object the finalizer retry loop sends: the re-read currentVersion with
\* the finalizers of the first-read version.
AddFinalizer(currentVersion, version) == [currentVersion EXCEPT !.finalizer = TRUE]

\* No deletion timestamp and no finalizer: the finalizer is put on the re-read
\* object and the pass ends with requeueAfter = 1s.
VersionReconcileAddFinalizer ==
    /\ Quiet
    /\ vr.pc = "run"
    /\ ~vr.obj.deleting /\ ~vr.obj.finalizer
    /\ IF ~children[vr.key].exists
       THEN /\ vr' = VrDone("err", <<>>)
            /\ UNCHANGED <<children, mr>>
       ELSE LET cur == children[vr.key]
                new == [children EXCEPT
                           ![vr.key] = ApiUpdate(cur, AddFinalizer(cur, vr.obj))]
            IN /\ children' = new
               /\ mr' = MrSees(new)
               /\ vr' = VrDone("requeue1s", <<>>)
    /\ UNCHANGED <<config, module, storage, upstream, attempted, env, fn>>

\* An InitStorageFactory that goes on without a backend.
InitStorageFactoryDefaults(backend) == FALSE

\* InitStorageFactory: with neither fileSystem nor s3 set on the storage
\* config it returns "At least one StorageConfig must be configured on the
\* Module." and calls no method of any backend.
InitStorageFactoryFails(backend) == backend \notin {"fs", "s3"}

\* A DeleteObject that answers success whatever it finds.
DeleteObjectNeverFails(backend, path) == FALSE

\* DeleteObject of the backend the Module's storage config selects: os.Remove
\* fails on a missing file, S3 answers success for a missing key.
DeleteObjectFails(backend, path) == backend = "fs" /\ storage[path] = Nil

\* Deletion timestamp set and finalizer present: the path is derived from the
\* Version as read (a moduleConfigRef without storage config is a nil
\* dereference, which ends the pass with an error), the storage Delete is
\* issued through InitStorageFactory, and the Version as read, minus the
\* finalizer, is written back with a single Update.
VersionReconcileDelete ==
    /\ Quiet
    /\ vr.pc = "run"
    /\ vr.obj.deleting /\ vr.obj.finalizer
    /\ IF ~vr.obj.mcrFull
       THEN /\ vr' = VrDone("err", <<>>)
            /\ UNCHANGED <<children, storage, attempted, mr, env>>
       ELSE IF InitStorageFactoryFails(config.backend)
       THEN /\ vr' = VrDone("err", <<>>)
            /\ UNCHANGED <<children, storage, attempted, mr, env>>
       ELSE LET path == getModuleFilePath(vr.obj.mcrName, vr.obj.fileName)
            IN /\ attempted' = [attempted EXCEPT ![vr.key] = TRUE]
               /\ IF DeleteObjectFails(config.backend, path)
                  THEN /\ vr' = VrDone("err", <<"delete">>)
                       /\ UNCHANGED <<children, storage, mr, env>>
                  ELSE /\ storage' = [storage EXCEPT ![path] = Nil]
                       /\ \E writeFails \in BOOLEAN :
                             /\ writeFails => env > 0
                             /\ env' = IF writeFails THEN env - 1 ELSE env
                             /\ IF writeFails \/ vr.stale \/ ~children[vr.key].exists
                                THEN /\ vr' = VrDone(IF ~writeFails /\ children[vr.key].exists
                                                      THEN "conflict" ELSE "err",
                                                      <<"delete">>)
                                     /\ UNCHANGED <<children, mr>>
                                ELSE LET new == [children EXCEPT ![vr.key] = NoObj]
                                     IN /\ children' = new
                                        /\ mr' = MrSees(new)
                                        /\ vr' = VrDone("ok", <<"delete">>)
    /\ UNCHANGED <<config, module, upstream, fn>>

\* The check of the two references that lets a Version with both through.
BothRefsIgnored(moduleConfigRef, providerConfigRef) == FALSE

\* version.Spec.ModuleConfigRef != nil && version.Spec.ProviderConfigRef != nil
BothRefsDefined(moduleConfigRef, providerConfigRef) ==
    moduleConfigRef /\ providerConfigRef

\* What the rejection sets on the Version's status: synced = false and the
\* syncStatus "Only one of 'ModuleConfigRef' or 'ProviderConfigRef' can be
\* provided: Both are defined".
BothRefsStatus(obj) == [obj EXCEPT !.synced = FALSE, !.syncStatus = "bothRefs"]

\* The gate with the comparison of the two checksums inverted.
ImmutableGateInverted(immutable, statusChecksum, archiveChecksum) ==
    immutable /\ statusChecksum # Nil /\ statusChecksum = archiveChecksum

\* The immutability gate.
ImmutableGate(immutable, statusChecksum, archiveChecksum) ==
    immutable /\ statusChecksum # Nil /\ statusChecksum # archiveChecksum

\* The gate's status with the fetched archive's checksum recorded as well.
GateStatusWithChecksum(obj, archiveChecksum) ==
    [obj EXCEPT !.synced = FALSE, !.syncStatus = "immutable",
                !.checksum = archiveChecksum]

\* What the tripped gate sets on the Version's status: synced = false and the
\* syncStatus "Version is marked immutable: ..."; the checksum is left alone.
GateStatus(obj, archiveChecksum) ==
    [obj EXCEPT !.synced = FALSE, !.syncStatus = "immutable"]

\* The storage methods one pass hands to InitStorageFactory, in order: Get
\* when status.checksum is set and Put otherwise, then Put when the file is
\* not reported to exist or the stored checksum differs from status.checksum.
\* The S3 GetObjectChecksum sets FileExists and ObjectChecksum for a stored
\* object; the filesystem GetObjectChecksum sets ObjectChecksum and never
\* FileExists; PutObject sets neither.
StorageMethods(backend, statusChecksum, stored) ==
    LET first == IF statusChecksum # Nil THEN "get" ELSE "put"
        fileExists == backend = "s3" /\ statusChecksum # Nil /\ stored # Nil
        objectChecksum == IF statusChecksum # Nil THEN stored ELSE Nil
        again == \/ ~fileExists
                 \/ objectChecksum # Nil /\ statusChecksum # Nil
                    /\ objectChecksum # statusChecksum
    IN <<first>> \o (IF again THEN <<"put">> ELSE <<>>)

\* The main pass: a Module status without an entry for the version is a nil
\* dereference, an entry without file name ends the pass with requeueAfter =
\* 10s; otherwise the fileName of the Module's status and the Module's config
\* go onto the Version; a Version that carries a providerConfigRef as well is
\* rejected with a status write on the Version as first read and no requeue;
\* else the archive is fetched and hashed, the gate is
\* applied, storage is brought up to date (without a backend the Put, or the
\* Put that follows the Get whose error is dropped, ends the pass with
\* InitStorageFactory's error), the spec is persisted on the re-read
\* object and the status is written with the Version as first read, whose
\* conflict is dropped (the closure assigns the error and returns nil).
VersionReconcileSync ==
    /\ Quiet
    /\ vr.pc = "run"
    /\ ~(vr.obj.deleting /\ vr.obj.finalizer)
    /\ ~(~vr.obj.deleting /\ ~vr.obj.finalizer)
    /\ LET cur == children[vr.key]
           name == ModuleConfigRefName(config)
           archive == upstream[vr.key]
           path == getModuleFilePath(name, vr.modFile)
           methods == StorageMethods(config.backend, vr.obj.checksum, storage[path])
           specd == [cur EXCEPT !.fileName = vr.modFile, !.mcrName = name,
                                !.mcrFull = TRUE, !.pcr = vr.obj.pcr]
           conflict == vr.stale \/ specd # cur
           done == IF conflict THEN specd
                   ELSE [specd EXCEPT !.checksum = archive, !.synced = TRUE,
                                      !.syncStatus = "ok"]
       IN IF vr.modFile = NoRef
          THEN /\ vr' = VrDone("err", <<>>)
               /\ UNCHANGED <<children, storage, mr>>
          ELSE IF vr.modFile = NoFile
          THEN /\ vr' = VrDone("requeue10s", <<>>)
               /\ UNCHANGED <<children, storage, mr>>
          ELSE IF BothRefsDefined(TRUE, vr.obj.pcr)
          THEN /\ UNCHANGED storage
               /\ IF vr.stale \/ ~cur.exists
                  THEN /\ vr' = VrDone(IF cur.exists THEN "conflict" ELSE "err", <<>>)
                       /\ UNCHANGED <<children, mr>>
                  ELSE LET new == [children EXCEPT ![vr.key] = BothRefsStatus(cur)]
                       IN /\ children' = new
                          /\ mr' = MrSees(new)
                          /\ vr' = VrDone("rejected", <<>>)
          ELSE IF ImmutableGate(config.immutable, vr.obj.checksum, archive)
          THEN /\ UNCHANGED storage
               /\ IF vr.stale \/ ~cur.exists
                  THEN /\ vr' = [VrDone(IF cur.exists THEN "conflict" ELSE "err", <<>>)
                                    EXCEPT !.fetched = TRUE]
                       /\ UNCHANGED <<children, mr>>
                  ELSE LET new == [children EXCEPT ![vr.key] = GateStatus(cur, archive)]
                       IN /\ children' = new
                          /\ mr' = MrSees(new)
                          /\ vr' = [VrDone("gate", <<>>) EXCEPT !.fetched = TRUE]
          ELSE IF InitStorageFactoryFails(config.backend)
          THEN /\ vr' = [VrDone("err", <<>>) EXCEPT !.fetched = TRUE]
               /\ UNCHANGED <<children, storage, mr>>
          ELSE /\ storage' = IF "put" \in Range(methods)
                             THEN [storage EXCEPT ![path] = archive] ELSE storage
               /\ IF ~cur.exists
                  THEN /\ vr' = [VrDone("err", methods) EXCEPT !.fetched = TRUE]
                       /\ UNCHANGED <<children, mr>>
                  ELSE LET new == [children EXCEPT ![vr.key] = done]
                       IN /\ children' = new
                          /\ mr' = MrSees(new)
                          /\ vr' = [VrDone("ok", methods) EXCEPT !.dropped = conflict,
                                                                 !.fetched = TRUE]
    /\ UNCHANGED <<config, module, upstream, attempted, env, fn>>

----------------------------------------------------------------------------
(* The surroundings: the Module's user, the upstream repository, and whoever *)
(* else writes Version objects through the cluster API.                      *)

\* The user takes an entry out of spec.versions.
UserRemoveVersion ==
    /\ Quiet
    /\ env > 0
    /\ \E i \in 1..Len(module.versions) :
          module' = [module EXCEPT !.versions =
                        SubSeq(module.versions, 1, i - 1)
                        \o SubSeq(module.versions, i + 1, Len(module.versions))]
    /\ env' = env - 1
    /\ UNCHANGED <<config, children, storage, upstream, mr, vr, attempted, fn>>

\* The upstream tag is moved: the archive of the ref hashes differently.
UpstreamRetag ==
    /\ Quiet
    /\ env > 0
    /\ \E k \in Keys, c \in Checksums :
          /\ c # upstream[k]
          /\ upstream' = [upstream EXCEPT ![k] = c]
    /\ env' = env - 1
    /\ UNCHANGED <<config, module, children, storage, mr, vr, attempted, fn>>

\* The Version of an entry of spec.versions is created through the cluster
\* API in the form the Module reconciler builds, under the file name the
\* Module's status records for it when it records one.
ApplyVersion ==
    /\ Quiet
    /\ env > 0
    /\ \E v \in Range(module.versions) :
          /\ ~children[sanitizeModuleVersion(v)].exists
          /\ module.refs[v] = NoRef => FileIds \ UsedFiles # {}
          /\ LET f == IF module.refs[v] # NoRef THEN module.refs[v] ELSE generateFileName
                 new == [children EXCEPT ![sanitizeModuleVersion(v)] =
                                            versionForModule(config, f, v)]
             IN /\ children' = new
                /\ mr' = MrSees(new)
                /\ vr' = VrSees(new)
                /\ attempted' = [attempted EXCEPT ![sanitizeModuleVersion(v)] = FALSE]
    /\ env' = env - 1
    /\ UNCHANGED <<config, module, storage, upstream, fn>>

EnvNext ==
    \/ UserRemoveVersion
    \/ UpstreamRetag
    \/ ApplyVersion

----------------------------------------------------------------------------

\* The reconcile's return value has been observed; the worker is free again.
ModuleReconcileReturn ==
    /\ mr.pc = "done"
    /\ mr' = MrIdle
    /\ UNCHANGED <<config, module, children, storage, upstream, vr, attempted, env, fn>>

VersionReconcileReturn ==
    /\ vr.pc = "done"
    /\ vr' = VrIdle
    /\ UNCHANGED <<config, module, children, storage, upstream, mr, attempted, env, fn>>

ModuleNext ==
    \/ ModuleReconcileBegin
    \/ ModuleReconcileGetChild
    \/ ModuleReconcileUpdateChild
    \/ ModuleReconcileFinish
    \/ ModuleReconcileReturn

VersionRun ==
    \/ VersionReconcileAddFinalizer
    \/ VersionReconcileDelete
    \/ VersionReconcileSync
    \/ VersionReconcileReturn

Next ==
    \/ ModuleNext
    \/ \E k \in Keys : VersionReconcileBegin(k)
    \/ VersionRun
    \/ EnvNext

Spec == Init /\ [][Next]_vars


\* One immutable Module on S3 with one version, and one more act of the
\* surroundings.
GateInit ==
    /\ InitCluster({[name |-> Nil, immutable |-> TRUE, backend |-> "s3", limit |-> NoLimit]},
                   {<<Ver(TRUE, 1, 0, 0)>>}, MaxEnv + 1)
    /\ fn = [pc |-> "off"]

GateSpec == GateInit /\ [][Next]_vars

\* One mutable Module on S3 whose config carries no name, under fair
\* scheduling: the work queues hand every pending key to its worker (the
\* Module is requeued by its watches, a Version by its requeues and watches),
\* and a worker runs a reconcile to its end.  Fairness is strong because a
\* step waits while the other worker's return is observed.
LiveInit ==
    /\ InitCluster({[name |-> Nil, immutable |-> FALSE, backend |-> "s3", limit |-> NoLimit]},
                   SpecVersions, MaxEnv)
    /\ fn = [pc |-> "off"]

LiveSpec ==
    /\ LiveInit /\ [][Next]_vars
    /\ SF_vars(ModuleNext)
    /\ \A k \in Keys : SF_vars(VersionReconcileBegin(k))
    /\ SF_vars(VersionRun)

----------------------------------------------------------------------------
(* getLatestVersion on its own: the Module's spec.versions is drawn from the  *)
(* lists of at most MaxLen entries, the result goes to status.latestVersion. *)

\* The cluster stands still while a pure computation is looked at.
ClusterAtRest ==
    InitCluster({[name |-> Nil, immutable |-> FALSE, backend |-> "s3", limit |-> NoLimit]},
                {<<Ver(TRUE, 1, 0, 0)>>}, 0)

LatestVersions == {Ver(v, 1, b, 0) : v \in BOOLEAN, b \in 0..MaxMinor}

VersionLists == UNION {[1..n -> LatestVersions] : n \in 0..MaxLen}

InitLatest ==
    /\ ClusterAtRest
    /\ \E vs \in VersionLists : fn = [pc |-> "call", versions |-> vs, latest |-> EmptyStr]

\* latestVersion := getLatestVersion(module); indexing the sorted slice of an
\* empty spec.versions at -1 panics.
LatestVersionCall ==
    /\ fn.pc = "call"
    /\ Len(fn.versions) = 0
    /\ fn' = [fn EXCEPT !.pc = "panic"]
    /\ UNCHANGED clusterVars

\* The result is written to status.latestVersion as it is.
LatestVersionWrite ==
    /\ fn.pc = "call"
    /\ Len(fn.versions) > 0
    /\ fn' = [fn EXCEPT !.pc = "ret", !.latest = getLatestVersion(fn.versions)]
    /\ UNCHANGED clusterVars

NextLatest ==
    \/ LatestVersionCall
    \/ LatestVersionWrite

SpecLatest == InitLatest /\ [][NextLatest]_vars

----------------------------------------------------------------------------
(* The Depot reconciler's constraint pass on its own: one page of releases   *)
(* and the constraints of moduleConfig.versionConstraints, in written order. *)

\* The operators of a constraint; "" is a bare version, which go-version
\* checks as "=".
ConstraintOps == {"", "=", "!=", ">", ">=", "<", "<=", "~>"}

\* The versions constraints are written against.
ConstraintVersions == {<<1, 0, 0>>, <<1, 0, 1>>, <<2, 0, 0>>}

DepotConstraints == [op : ConstraintOps, sem : ConstraintVersions]

\* The release tags of the upstream repository, newest last.
UpstreamTags ==
    <<Ver(TRUE, 1, 0, 0), Ver(TRUE, 1, 0, 1), Ver(TRUE, 1, 1, 0),
      Ver(TRUE, 2, 0, 0), Ver(TRUE, 2, 0, 1)>>

\* The pages of releases ListReleases answers with.
ReleaseLists == {SubSeq(UpstreamTags, 1, n) : n \in 3..Len(UpstreamTags)}

\* version.NewVersion(tag).String(): the tag parsed and written back, which
\* drops a leading 'v'.
VersionString(tag) == [v |-> FALSE, sem |-> tag.sem]

\* constraint.Check(version) of go-version, for versions of three segments
\* without pre-release.
ConstraintCheck(constraint, version) ==
    LET c == [v |-> FALSE, sem |-> constraint.sem]
    IN CASE constraint.op \in {"", "="} -> version.sem = c.sem
         [] constraint.op = "!=" -> version.sem # c.sem
         [] constraint.op = ">" -> SemLess(c, version)
         [] constraint.op = ">=" -> ~SemLess(version, c)
         [] constraint.op = "<" -> SemLess(version, c)
         [] constraint.op = "<=" -> ~SemLess(c, version)
         [] constraint.op = "~>" -> /\ ~SemLess(version, c)
                                    /\ version.sem[1] = c.sem[1]
                                    /\ version.sem[2] = c.sem[2]

\* slices.Delete of the one element equal to x.
SliceDelete(matched, x) ==
    LET i == CHOOSE j \in 1..Len(matched) : matched[j] = x
    IN SubSeq(matched, 1, i - 1) \o SubSeq(matched, i + 1, Len(matched))

\* The inner loop over the releases for one constraint, from release i on:
\* a release that passes a >=, <= or ~> constraint is appended when new; a
\* release that fails a != constraint and is in the matched list is deleted
\* from it, which ends the loop for this constraint.
RECURSIVE ReleaseLoop(_, _, _, _)
ReleaseLoop(constraint, releases, i, matchedVersions) ==
    IF i > Len(releases) THEN matchedVersions
    ELSE LET str == VersionString(releases[i])
         IN IF ConstraintCheck(constraint, releases[i])
            THEN IF constraint.op \in {">=", "<=", "~>"} /\ str \notin Range(matchedVersions)
                 THEN ReleaseLoop(constraint, releases, i + 1, Append(matchedVersions, str))
                 ELSE ReleaseLoop(constraint, releases, i + 1, matchedVersions)
            ELSE IF constraint.op = "!=" /\ str \in Range(matchedVersions)
                 THEN SliceDelete(matchedVersions, str)
                 ELSE ReleaseLoop(constraint, releases, i + 1, matchedVersions)

\* The outer loop over the constraints, from constraint ci on.
RECURSIVE ConstraintLoop(_, _, _, _)
ConstraintLoop(constraints, releases, ci, matchedVersions) ==
    IF ci > Len(constraints) THEN matchedVersions
    ELSE ConstraintLoop(constraints, releases, ci + 1,
                        ReleaseLoop(constraints[ci], releases, 1, matchedVersions))

ConstraintLists == UNION {[1..n -> DepotConstraints] : n \in 1..MaxConstraints}

InitDepot ==
    /\ ClusterAtRest
    /\ \E cs \in ConstraintLists, rs \in ReleaseLists :
          fn = [pc |-> "constraints", constraints |-> cs, releases |-> rs,
                ci |-> 1, matchedVersions |-> <<>>, versions |-> <<>>]

\* One turn of the loop over the constraints.
DepotConstraintPass ==
    /\ fn.pc = "constraints"
    /\ fn.ci <= Len(fn.constraints)
    /\ fn' = [fn EXCEPT !.ci = fn.ci + 1,
                        !.matchedVersions = ReleaseLoop(fn.constraints[fn.ci], fn.releases,
                                                        1, fn.matchedVersions)]
    /\ UNCHANGED clusterVars

\* The matched versions become the Module's spec.versions.
DepotSetVersions ==
    /\ fn.pc = "constraints"
    /\ fn.ci > Len(fn.constraints)
    /\ fn' = [fn EXCEPT !.pc = "ret", !.versions = fn.matchedVersions]
    /\ UNCHANGED clusterVars

NextDepot ==
    \/ DepotConstraintPass
    \/ DepotSetVersions

SpecDepot == InitDepot /\ [][NextDepot]_vars

----------------------------------------------------------------------------
(* Two reconciles of one Module writing status.moduleVersionRefs: each holds *)
(* the map it built in its loop over spec.versions and stores it whole.      *)

\* A map a reconcile has built: at least the entry of the version it is at.
LocalRefs == [ClusterVersions -> {NoRef} \cup FileIds] \ {NoRefs}

StatusWriters == {1, 2}

InitStatusRace ==
    /\ ClusterAtRest
    /\ \E stored \in [ClusterVersions -> {NoRef} \cup FileIds], a, b \in LocalRefs :
          fn = [pc      |-> "race",
                refs    |-> stored,
                rv      |-> 0,
                writers |-> [w \in StatusWriters |->
                                [pc |-> "get", seen |-> 0, conflicts |-> 0,
                                 moduleVersionRefs |-> IF w = 1 THEN a ELSE b]]]

\* r.Get(ctx, req.NamespacedName, module) at the head of the retry closure.
StatusWriterGet(w) ==
    /\ fn.pc = "race"
    /\ fn.writers[w].pc = "get"
    /\ fn' = [fn EXCEPT !.writers[w].pc = "update", !.writers[w].seen = fn.rv]
    /\ UNCHANGED clusterVars

\* module.Status.ModuleVersionRefs = moduleVersionRefs; r.Status().Update: the
\* local map replaces the stored one; a conflict sends the closure round again.
StatusWriterUpdate(w) ==
    /\ fn.pc = "race"
    /\ fn.writers[w].pc = "update"
    /\ IF fn.writers[w].seen = fn.rv
       THEN fn' = [fn EXCEPT !.refs = fn.writers[w].moduleVersionRefs,
                             !.rv = fn.rv + 1,
                             !.writers[w].pc = "done"]
       ELSE fn' = [fn EXCEPT !.writers[w].pc = "get",
                             !.writers[w].conflicts = @ + 1]
    /\ UNCHANGED clusterVars

NextStatusRace ==
    \/ \E w \in StatusWriters : StatusWriterGet(w)
    \/ \E w \in StatusWriters : StatusWriterUpdate(w)

SpecStatusRace == InitStatusRace /\ [][NextStatusRace]_vars

----------------------------------------------------------------------------

(* The registry server's download handler on its own: one request for one   *)
(* object of the storage system.                                             *)

\* What the fileChecksum query parameter can hold; "" when it is absent.
QueryChecksums == Checksums \cup {""}

\* The object asked for: absent, or present with the SHA-256 the storage
\* system keeps for it, Nil when it keeps none.
StoredObjects ==
    {[exists |-> FALSE, sha256 |-> Nil]}
        \cup [exists : {TRUE}, sha256 : Checksums \cup {Nil}]

HttpNone == 0

HttpOK == 200

HttpInternalServerError == 500

InitDownload ==
    /\ ClusterAtRest
    /\ \E o \in StoredObjects, q \in QueryChecksums, zip, readFails \in BOOLEAN :
          fn = [pc |-> "checksum", object |-> o, checksum |-> q, zip |-> zip,
                readFails |-> readFails, ObjectChecksum |-> Nil,
                contentType |-> Nil, status |-> HttpNone, body |-> FALSE]

\* storage.GetObjectChecksum: an error for an absent object, soi.ObjectChecksum
\* set only when the storage system reports a SHA-256.
ServeGetObjectChecksum ==
    /\ fn.pc = "checksum"
    /\ IF ~fn.object.exists
       THEN fn' = [fn EXCEPT !.pc = "done", !.status = HttpInternalServerError]
       ELSE fn' = [fn EXCEPT !.pc = "compare", !.ObjectChecksum = fn.object.sha256]
    /\ UNCHANGED clusterVars

\* soi.ObjectChecksum != nil && *soi.ObjectChecksum != checksum
ServeCompare ==
    /\ fn.pc = "compare"
    /\ IF fn.ObjectChecksum # Nil /\ fn.ObjectChecksum # fn.checksum
       THEN fn' = [fn EXCEPT !.pc = "done", !.status = HttpInternalServerError]
       ELSE fn' = [fn EXCEPT !.pc = "get"]
    /\ UNCHANGED clusterVars

\* storage.GetObject, then the Content-Type by the file's suffix.
ServeGetObject ==
    /\ fn.pc = "get"
    /\ IF fn.readFails
       THEN fn' = [fn EXCEPT !.pc = "done", !.status = HttpInternalServerError]
       ELSE fn' = [fn EXCEPT !.pc = "copy",
                             !.contentType = IF fn.zip THEN "application/zip"
                                                       ELSE "application/x-tar"]
    /\ UNCHANGED clusterVars

\* io.Copy(w, reader): the first write sends 200 and the archive's bytes.
ServeCopy ==
    /\ fn.pc = "copy"
    /\ fn' = [fn EXCEPT !.pc = "done", !.status = HttpOK, !.body = TRUE]
    /\ UNCHANGED clusterVars

NextDownload ==
    \/ ServeGetObjectChecksum
    \/ ServeCompare
    \/ ServeGetObject
    \/ ServeCopy

SpecDownload == InitDownload /\ [][NextDownload]_vars

----------------------------------------------------------------------------

(* The cluster with a Module that may carry spec.forceSync and a             *)
(* versionHistoryLimit of at most MaxLimit.                                  *)

InitHistory ==
    /\ InitModule([name : {Nil}, immutable : {FALSE}, backend : {"s3"},
                   limit : {NoLimit} \cup 1..MaxLimit],
                  SpecVersions, BOOLEAN, MaxEnv)
    /\ fn = [pc |-> "off"]

HistorySpec == InitHistory /\ [][Next]_vars

----------------------------------------------------------------------------

(* The Version reconciler's GitHub client on its own: the secret is read,    *)
(* the client is built, the archive is fetched with it and handed to storage.*)

\* What the Secret kerrareg-github-application-secret can be: unreadable, with
\* a field that does not parse, or well-formed.
GithubSecrets == {"unreadable", "badAppID", "badInstallID", "badPrivateKey", "ok"}

\* GenerateAuthenticatedGithubClient: the PEM block is decoded and parsed, the
\* JWT signed, and the installation token minted; each can fail.
GenerateAuthenticatedGithubClient(keyOk, mintOk) ==
    IF keyOk /\ mintOk THEN [client |-> "authenticated", err |-> FALSE]
    ELSE [client |-> Nil, err |-> TRUE]

\* A CreateGithubClient that answers with the default client whenever it has
\* no authenticated one.
CreateGithubClientFallback(useAuthenticatedClient, githubConfig, keyOk, mintOk) ==
    LET auth == GenerateAuthenticatedGithubClient(keyOk, mintOk)
    IN  IF useAuthenticatedClient /\ githubConfig # Nil /\ ~auth.err
        THEN auth
        ELSE [client |-> "anonymous", err |-> FALSE]

CreateGithubClient(useAuthenticatedClient, githubConfig, keyOk, mintOk) ==
    IF useAuthenticatedClient /\ githubConfig = Nil
    THEN [client |-> Nil, err |-> TRUE]
    ELSE IF useAuthenticatedClient /\ githubConfig # Nil
    THEN GenerateAuthenticatedGithubClient(keyOk, mintOk)
    ELSE [client |-> "anonymous", err |-> FALSE]

\* A reconcile at the head of its client construction, or a call of
\* CreateGithubClient with a configuration its caller hands it.
InitGithubClient ==
    /\ ClusterAtRest
    /\ \E use, keyOk, mintOk, fetchOk \in BOOLEAN, secret \in GithubSecrets,
          at \in {"secret", "create"}, cfg \in {Nil, "config"} :
          /\ at = "secret" => cfg = Nil
          /\ fn = [pc |-> at, useAuthenticatedClient |-> use, secret |-> secret,
                   keyOk |-> keyOk, mintOk |-> mintOk, fetchOk |-> fetchOk,
                   githubClientConfig |-> cfg, client |-> Nil, result |-> "none",
                   fetched |-> FALSE, ops |-> <<>>]

\* GetGithubApplicationSecret, called only when useAuthenticatedClient is set.
ClientGetSecret ==
    /\ fn.pc = "secret"
    /\ IF ~fn.useAuthenticatedClient
       THEN fn' = [fn EXCEPT !.pc = "create"]
       ELSE IF fn.secret # "ok"
       THEN fn' = [fn EXCEPT !.pc = "done", !.result = "err"]
       ELSE fn' = [fn EXCEPT !.pc = "create", !.githubClientConfig = "config"]
    /\ UNCHANGED clusterVars

\* CreateGithubClient and the return of its error.
ClientCreate ==
    /\ fn.pc = "create"
    /\ LET r == CreateGithubClient(fn.useAuthenticatedClient, fn.githubClientConfig,
                                   fn.keyOk, fn.mintOk)
       IN  IF r.err
           THEN fn' = [fn EXCEPT !.pc = "done", !.result = "err"]
           ELSE fn' = [fn EXCEPT !.pc = "fetch", !.client = r.client]
    /\ UNCHANGED clusterVars

\* GetModuleArchiveFromRef with the client; a failure is written to the
\* status and the pass ends with the error of that write.
ClientFetch ==
    /\ fn.pc = "fetch"
    /\ IF fn.fetchOk
       THEN fn' = [fn EXCEPT !.pc = "storage", !.fetched = TRUE]
       ELSE fn' = [fn EXCEPT !.pc = "done", !.fetched = TRUE, !.result = "ok"]
    /\ UNCHANGED clusterVars

\* The archive goes to storage.
ClientStorage ==
    /\ fn.pc = "storage"
    /\ fn' = [fn EXCEPT !.pc = "done", !.result = "ok", !.ops = <<"put">>]
    /\ UNCHANGED clusterVars

NextGithubClient ==
    \/ ClientGetSecret
    \/ ClientCreate
    \/ ClientFetch
    \/ ClientStorage

SpecGithubClient == InitGithubClient /\ [][NextGithubClient]_vars

----------------------------------------------------------------------------

(* The cluster after the Module's first reconcile, with the Version of its   *)
(* first entry applied by a user who may have set a providerConfigRef on it. *)

InitRefs ==
    LET v == Ver(TRUE, 1, 0, 0)
        w == Ver(FALSE, 1, 1, 0)
        k == sanitizeModuleVersion(v)
        cfg == [name |-> Nil, immutable |-> FALSE, backend |-> "s3", limit |-> NoLimit]
    IN  /\ config = cfg
        /\ module = [versions |-> <<v, w>>, forceSync |-> FALSE,
                     refs |-> [NoRefs EXCEPT ![v] = 1, ![w] = 2],
                     latest |-> getLatestVersion(<<v, w>>), synced |-> TRUE]
        /\ \E p \in BOOLEAN :
              children = [[x \in Keys |-> NoObj] EXCEPT
                             ![k] = [versionForModule(cfg, 1, v) EXCEPT !.pcr = p]]
        /\ storage = [p \in {ModuleName, AltName} \X FileIds |-> Nil]
        /\ upstream = [x \in Keys |-> "A"]
        /\ mr = MrIdle
        /\ vr = VrIdle
        /\ attempted = [x \in Keys |-> FALSE]
        /\ env = MaxEnv - 1
        /\ fn = [pc |-> "off"]

RefsSpec == InitRefs /\ [][Next]_vars

----------------------------------------------------------------------------

(* The cluster with a Module whose storage config names no backend: the      *)
(* Version of the first entry is there, never synced or synced while a       *)
(* backend was still configured.                                             *)

InitBackend ==
    LET v == Ver(TRUE, 1, 0, 0)
        w == Ver(FALSE, 1, 1, 0)
        k == sanitizeModuleVersion(v)
        cfg == [name |-> Nil, immutable |-> FALSE, backend |-> "none", limit |-> NoLimit]
        child == [versionForModule(cfg, 1, v) EXCEPT !.finalizer = TRUE, !.mcrFull = TRUE]
    IN  /\ config = cfg
        /\ module = [versions |-> <<v, w>>, forceSync |-> FALSE,
                     refs |-> [NoRefs EXCEPT ![v] = 1, ![w] = 2],
                     latest |-> getLatestVersion(<<v, w>>), synced |-> TRUE]
        /\ \E was \in BOOLEAN :
              /\ children = [[x \in Keys |-> NoObj] EXCEPT
                                ![k] = IF was
                                       THEN [child EXCEPT !.checksum = "A", !.synced = TRUE,
                                                          !.syncStatus = "ok"]
                                       ELSE child]
              /\ storage = [p \in {ModuleName, AltName} \X FileIds |->
                               IF was /\ p = getModuleFilePath(ModuleName, 1)
                               THEN "A" ELSE Nil]
        /\ upstream = [x \in Keys |-> "A"]
        /\ mr = MrIdle
        /\ vr = VrIdle
        /\ attempted = [x \in Keys |-> FALSE]
        /\ env = MaxEnv - 1
        /\ fn = [pc |-> "off"]

BackendSpec == InitBackend /\ [][Next]_vars

----------------------------------------------------------------------------

(* One turn of the Depot reconciler's loop over spec.moduleConfigs: the       *)
(* global defaults, the upstream client, the matched versions, and the       *)
(* Module created or updated.                                                *)

\* A *bool of a config: unset, or set to true or false.
OptBool == {Nil, "true", "false"}

\* The fields of a module config and of the global config that the pass
\* defaults: immutable, and the GitHub client config (its
\* useAuthenticatedClient when it is set).
DepotModuleConfigs == [immutable : OptBool, githubClientConfig : OptBool]

\* Reconcile, head of the loop body: a field the module config leaves unset
\* takes the global config's value.
GlobalDefaults(moduleConfig, globalConfig) ==
    [immutable |-> IF moduleConfig.immutable = Nil
                   THEN globalConfig.immutable ELSE moduleConfig.immutable,
     githubClientConfig |-> IF moduleConfig.githubClientConfig = Nil
                            THEN globalConfig.githubClientConfig
                            ELSE moduleConfig.githubClientConfig]

\* The versionConstraints of the module configs of the pass.
PassConstraints ==
    {<<[op |-> ">=", sem |-> <<1, 0, 0>>]>>,
     <<[op |-> ">=", sem |-> <<1, 0, 0>>], [op |-> "!=", sem |-> <<1, 0, 1>>]>>,
     <<[op |-> "~>", sem |-> <<2, 0, 0>>]>>}

\* The Module of the module config's name as the cluster holds it before the
\* pass: none, or one an earlier pass stored.
NoModule ==
    [exists |-> FALSE, moduleConfig |-> [immutable |-> Nil, githubClientConfig |-> Nil],
     versions |-> <<>>]

StoredModules ==
    {NoModule} \cup [exists : {TRUE},
                     moduleConfig : {[immutable |-> Nil, githubClientConfig |-> "false"]},
                     versions : {<<>>, <<VersionString(UpstreamTags[1])>>}]

\* The object r.Get leaves in currentModule when it fails: no name, no
\* resource version.
ZeroModule == [name |-> "", versions |-> <<>>]

InitDepotPass ==
    /\ ClusterAtRest
    /\ \E mc, gc \in DepotModuleConfigs, secret \in GithubSecrets, mintOk \in BOOLEAN,
          cs \in PassConstraints, rs \in ReleaseLists, stored \in StoredModules :
          fn = [pc |-> "defaults", moduleConfig |-> mc, globalConfig |-> gc,
                secret |-> secret, mintOk |-> mintOk, secretRead |-> FALSE,
                constraints |-> cs, releases |-> rs, existed |-> stored.exists,
                stored |-> stored, client |-> Nil, matchedVersions |-> <<>>,
                currentModule |-> ZeroModule, created |-> FALSE, result |-> "none"]

\* The global defaults go onto the module config.
DepotPassDefaults ==
    /\ fn.pc = "defaults"
    /\ fn' = [fn EXCEPT !.pc = "secret",
                        !.moduleConfig = GlobalDefaults(fn.moduleConfig, fn.globalConfig)]
    /\ UNCHANGED clusterVars

\* GetGithubApplicationSecret is called for every module config; its error
\* ends the pass.
DepotPassGetSecret ==
    /\ fn.pc = "secret"
    /\ IF fn.secret # "ok"
       THEN fn' = [fn EXCEPT !.pc = "done", !.result = "err", !.secretRead = TRUE]
       ELSE fn' = [fn EXCEPT !.pc = "client", !.secretRead = TRUE]
    /\ UNCHANGED clusterVars

\* CreateGithubClient with the module config's useAuthenticatedClient; a
\* module config without a GitHub client config is a nil dereference.
DepotPassCreateClient ==
    /\ fn.pc = "client"
    /\ IF fn.moduleConfig.githubClientConfig = Nil
       THEN fn' = [fn EXCEPT !.pc = "done", !.result = "err"]
       ELSE LET r == CreateGithubClient(fn.moduleConfig.githubClientConfig = "true",
                                        "config", TRUE, fn.mintOk)
            IN  IF r.err
                THEN fn' = [fn EXCEPT !.pc = "done", !.result = "err"]
                ELSE fn' = [fn EXCEPT !.pc = "match", !.client = r.client]
    /\ UNCHANGED clusterVars

\* The releases are listed and run through the constraints.
DepotPassMatch ==
    /\ fn.pc = "match"
    /\ fn' = [fn EXCEPT !.pc = "get",
                        !.matchedVersions = ConstraintLoop(fn.constraints, fn.releases,
                                                           1, <<>>)]
    /\ UNCHANGED clusterVars

\* r.Get of the Module into currentModule; when it fails the Module built by
\* the pass is created.
DepotPassGetModule ==
    /\ fn.pc = "get"
    /\ IF ~fn.stored.exists
       THEN fn' = [fn EXCEPT !.pc = "update", !.created = TRUE,
                             !.stored = [exists |-> TRUE,
                                         moduleConfig |-> fn.moduleConfig,
                                         versions |-> fn.matchedVersions]]
       ELSE fn' = [fn EXCEPT !.pc = "update",
                             !.currentModule = [name |-> ModuleName,
                                                versions |-> fn.stored.versions]]
    /\ UNCHANGED clusterVars

\* r.Update of currentModule with the module config and the versions; the
\* API refuses an object without a name.
DepotPassUpdate ==
    /\ fn.pc = "update"
    /\ IF fn.currentModule.name = ""
       THEN fn' = [fn EXCEPT !.pc = "done", !.result = "err"]
       ELSE fn' = [fn EXCEPT !.pc = "done", !.result = "ok",
                             !.stored = [exists |-> TRUE,
                                         moduleConfig |-> fn.moduleConfig,
                                         versions |-> fn.matchedVersions]]
    /\ UNCHANGED clusterVars

NextDepotPass ==
    \/ DepotPassDefaults
    \/ DepotPassGetSecret
    \/ DepotPassCreateClient
    \/ DepotPassMatch
    \/ DepotPassGetModule
    \/ DepotPassUpdate

SpecDepotPass == InitDepotPass /\ [][NextDepotPass]_vars

----------------------------------------------------------------------------

(* The cluster with the Version of the Module's first entry in place, the    *)
(* finalizer on it and the Module's config copied to it; its archive is in   *)
(* storage or not.                                                           *)

InitWithChild(backends) ==
    LET v == Ver(TRUE, 1, 0, 0)
        w == Ver(FALSE, 1, 1, 0)
        k == sanitizeModuleVersion(v)
    IN  /\ config \in [name : {Nil}, immutable : {FALSE}, backend : backends,
                       limit : {NoLimit}]
        /\ module = [versions |-> <<v, w>>, forceSync |-> FALSE,
                     refs |-> [NoRefs EXCEPT ![v] = 1, ![w] = 2],
                     latest |-> getLatestVersion(<<v, w>>), synced |-> TRUE]
        /\ \E was \in BOOLEAN :
              LET child == [versionForModule(config, 1, v) EXCEPT
                               !.finalizer = TRUE, !.mcrFull = TRUE]
              IN  /\ children = [[x \in Keys |-> NoObj] EXCEPT
                                    ![k] = IF was
                                           THEN [child EXCEPT !.checksum = "A",
                                                              !.synced = TRUE,
                                                              !.syncStatus = "ok"]
                                           ELSE child]
                  /\ storage = [p \in {ModuleName, AltName} \X FileIds |->
                                   IF was /\ p = getModuleFilePath(ModuleName, 1)
                                   THEN "A" ELSE Nil]
        /\ upstream = [x \in Keys |-> "A"]
        /\ mr = MrIdle
        /\ vr = VrIdle
        /\ attempted = [x \in Keys |-> FALSE]
        /\ env = MaxEnv - 1
        /\ fn = [pc |-> "off"]

InitDelete == InitWithChild({"fs", "s3"})

DeleteSpec == InitDelete /\ [][Next]_vars

\* The same with any one of the four tags of StorageConfig populated.
StorageTags == {"s3", "azure", "gcs", "fs"}

InitFactory == InitWithChild(StorageTags)

FactorySpec == InitFactory /\ [][Next]_vars

----------------------------------------------------------------------------

(* The archive fetch of a Version pass on its own: the ref is built from     *)
(* spec.version, the archive link is asked of GitHub, and a failure is       *)
(* written to the status of the Version as first read.                       *)

defaultRequeueDuration == 30

\* ctrl.Result{}: no requeueAfter.
NoRequeue == 0

\* The tags the upstream repository can carry for release 1.0.0.
FetchTags == SUBSET {Ver(TRUE, 1, 0, 0), Ver(FALSE, 1, 0, 0)}

\* How the GitHub API answers: with a response, with a server error, or with
\* no response at all.
FetchAnswers == {"answer", "serverError", "noResponse"}

\* The status a Version can carry when the pass begins.
FetchStatuses ==
    [synced : BOOLEAN, checksum : {Nil, "A"}, syncStatus : {"", "ok"}]

\* The archives the upstream repository can serve.
FetchArchives == {"bytesA", "bytesB"}

\* base64.StdEncoding.EncodeToString(sha256.Sum256(bytes)).
Sha256Base64(bytes) == IF bytes = "bytesA" THEN "A" ELSE "B"

\* types.StorageObjectInput{FileBytes, FilePath, Version}: the fields the
\* reconciler does not name keep their zero value, ArchiveChecksum among them.
StorageObjectInput(fileBytes, method) ==
    [method |-> method, fileBytes |-> fileBytes, archiveChecksum |-> Nil]

\* GetModuleArchiveFromRef: the ref is spec.version with a "v" put in front
\* when it has none; alResp.Body.Close() is deferred before the error is
\* looked at, so a call without response panics; a ref that is no tag and
\* an answer other than 302 are errors; else the archive is read and hashed.
GetModuleArchiveFromRef(version, tags, answer, archive) ==
    LET ref == [version EXCEPT !.v = TRUE]
    IN  IF answer = "noResponse"
        THEN [panic |-> TRUE, err |-> FALSE, moduleBytes |-> Nil, checksum |-> Nil]
        ELSE IF answer = "serverError" \/ ref \notin tags
        THEN [panic |-> FALSE, err |-> TRUE, moduleBytes |-> Nil, checksum |-> Nil]
        ELSE [panic |-> FALSE, err |-> FALSE, moduleBytes |-> archive,
              checksum |-> Sha256Base64(archive)]

InitFetch ==
    /\ ClusterAtRest
    /\ \E version \in {Ver(TRUE, 1, 0, 0), Ver(FALSE, 1, 0, 0)}, tags \in FetchTags,
          answer \in FetchAnswers, status \in FetchStatuses, stale \in BOOLEAN,
          archive \in FetchArchives :
          /\ status.synced => status.checksum # Nil /\ status.syncStatus = "ok"
          /\ fn = [pc |-> "fetch", version |-> version, tags |-> tags,
                   answer |-> answer, archive |-> archive, stale |-> stale,
                   stored |-> status, local |-> status, fetchErr |-> FALSE,
                   fileBytes |-> Nil, archiveChecksum |-> Nil, ops |-> <<>>,
                   err |-> FALSE, requeueAfter |-> NoRequeue]

\* The fetch and what follows it: on an error the message goes to
\* version.Status.SyncStatus of the local object.
FetchArchive ==
    /\ fn.pc = "fetch"
    /\ LET r == GetModuleArchiveFromRef(fn.version, fn.tags, fn.answer, fn.archive)
       IN  IF r.panic
           THEN fn' = [fn EXCEPT !.pc = "done", !.err = TRUE]
           ELSE IF r.err
           THEN fn' = [fn EXCEPT !.pc = "status", !.fetchErr = TRUE,
                                 !.local.syncStatus = "fetchFailed"]
           ELSE fn' = [fn EXCEPT !.pc = "storage", !.fileBytes = r.moduleBytes,
                                 !.archiveChecksum = r.checksum]
    /\ UNCHANGED clusterVars

\* err = r.Status().Update(ctx, version); return ctrl.Result{}, err: the
\* write of the first-read object is refused when the object changed, and
\* the pass returns the error of the write, nil when it was accepted.
FetchFailureStatusUpdate ==
    /\ fn.pc = "status"
    /\ IF fn.stale
       THEN fn' = [fn EXCEPT !.pc = "done", !.err = TRUE, !.requeueAfter = NoRequeue]
       ELSE fn' = [fn EXCEPT !.pc = "done", !.stored = fn.local, !.err = FALSE,
                             !.requeueAfter = NoRequeue]
    /\ UNCHANGED clusterVars

\* The fetched archive goes on to the storage step: the input of the backend
\* is built from the bytes, a Version without status.checksum is Put.
FetchedToStorage ==
    /\ fn.pc = "storage"
    /\ fn' = [fn EXCEPT !.pc = "done",
                         !.ops = IF fn.local.checksum = Nil
                                 THEN <<StorageObjectInput(fn.fileBytes, "put")>>
                                 ELSE <<StorageObjectInput(fn.fileBytes, "get")>>]
    /\ UNCHANGED clusterVars

NextFetch ==
    \/ FetchArchive
    \/ FetchFailureStatusUpdate
    \/ FetchedToStorage

SpecFetch == InitFetch /\ [][NextFetch]_vars

----------------------------------------------------------------------------

(* The storage path of a Version on its own: the Module's config is put on   *)
(* the Version, then getModuleFilePath builds the path from the storage      *)
(* config. Strings are sequences of tokens: the characters of the prefix,    *)
(* and the module name and the file name as one token each.                  *)

MaxPrefix == 2      \* the longest storage prefix looked at

PrefixChars == {"a", "/", "\\"}

\* A *string of the storage config: nil, or a string of up to MaxPrefix
\* characters, the empty one included.
PrefixStrings ==
    {[set |-> FALSE, val |-> <<>>]}
    \cup {[set |-> TRUE, val |-> s] : s \in UNION {[1..n -> PrefixChars] : n \in 0..MaxPrefix}}

\* StorageConfig as far as the path goes: the S3 block with its key, the
\* FileSystem block with its directoryPath.
PathStorageConfigs ==
    [s3 : BOOLEAN, key : PrefixStrings, fileSystem : BOOLEAN, directoryPath : PrefixStrings]

\* RemoveTrailingSlash: a nil string is an error; the last character is
\* looked at without a check of the length, so the empty string panics; one
\* trailing "/" or "\" is cut off.
RemoveTrailingSlash(s) ==
    IF ~s.set THEN [panic |-> FALSE, err |-> TRUE, val |-> <<>>]
    ELSE IF Len(s.val) = 0 THEN [panic |-> TRUE, err |-> FALSE, val |-> <<>>]
    ELSE IF s.val[Len(s.val)] \in {"/", "\\"}
    THEN [panic |-> FALSE, err |-> FALSE, val |-> SubSeq(s.val, 1, Len(s.val) - 1)]
    ELSE [panic |-> FALSE, err |-> FALSE, val |-> s.val]

\* getModuleFilePath with the storage config: the S3 key when the S3 block
\* has one, else the directoryPath when the FileSystem block has one, each
\* through RemoveTrailingSlash and "%s/%s/%s"; else "%s/%s".
getModuleFilePathIn(storageConfig, name, fileName) ==
    LET join(r) == [panic |-> r.panic, err |-> r.err,
                    path |-> IF r.panic \/ r.err THEN <<>>
                             ELSE r.val \o <<"/", name, "/", fileName>>]
    IN  IF storageConfig.s3 /\ storageConfig.key.set
        THEN join(RemoveTrailingSlash(storageConfig.key))
        ELSE IF storageConfig.fileSystem /\ storageConfig.directoryPath.set
        THEN join(RemoveTrailingSlash(storageConfig.directoryPath))
        ELSE [panic |-> FALSE, err |-> FALSE, path |-> <<name, "/", fileName>>]

InitPath ==
    /\ ClusterAtRest
    /\ \E sc \in PathStorageConfigs, name \in {Nil, AltName} :
          fn = [pc |-> "type", storageConfig |-> sc, moduleConfigName |-> name,
                objectName |-> ModuleName, fileName |-> "file",
                moduleConfigRefName |-> Nil, path |-> <<>>, panic |-> FALSE,
                err |-> FALSE]

\* The type switch: moduleConfigRef.name is the Module's moduleConfig.name,
\* or the Module object's name when that is nil.
PathSetModuleConfigRef ==
    /\ fn.pc = "type"
    /\ fn' = [fn EXCEPT !.pc = "path",
                        !.moduleConfigRefName =
                            IF fn.moduleConfigName = Nil THEN fn.objectName
                            ELSE fn.moduleConfigName]
    /\ UNCHANGED clusterVars

\* filePath, err = getModuleFilePath(version).
PathDerive ==
    /\ fn.pc = "path"
    /\ LET r == getModuleFilePathIn(fn.storageConfig, fn.moduleConfigRefName, fn.fileName)
       IN  fn' = [fn EXCEPT !.pc = "done", !.path = r.path, !.panic = r.panic,
                            !.err = r.err]
    /\ UNCHANGED clusterVars

NextPath ==
    \/ PathSetModuleConfigRef
    \/ PathDerive

SpecPath == InitPath /\ [][NextPath]_vars

----------------------------------------------------------------------------

(* ReconcileVersionRemovals on its own, with spec.versions entries that carry *)
(* all the fields of ModuleVersion.                                          *)

MaxEntries == 2     \* the longest spec.versions looked at

\* ModuleVersion: version, and the optional name, fileName and synced.
ModuleVersionEntries ==
    [version : ClusterVersions, name : {"", "n"}, fileName : {Nil, "f"}, synced : BOOLEAN]

\* The probe the loop builds for a child: ModuleVersion{Version: ...}.
ModuleVersionProbe(version) ==
    [version |-> version, name |-> "", fileName |-> Nil, synced |-> FALSE]

\* slices.Contains(module.Spec.Versions, moduleVersion): equality of the
\* whole struct.
SlicesContains(entries, version) ==
    \E i \in 1..Len(entries) : entries[i] = ModuleVersionProbe(version)

InitRemovals ==
    /\ ClusterAtRest
    /\ \E entries \in UNION {[1..n -> ModuleVersionEntries] : n \in 0..MaxEntries},
          listed \in SUBSET ClusterVersions :
          fn = [pc |-> "list", entries |-> entries, cluster |-> listed,
                items |-> {}, deleted |-> {}, result |-> "none"]

\* r.List with the label selector of the Module: its child Versions.
RemovalsList ==
    /\ fn.pc = "list"
    /\ fn' = [fn EXCEPT !.pc = "loop", !.items = fn.cluster]
    /\ UNCHANGED clusterVars

\* One turn of the loop over the listed Versions.
RemovalsVisit ==
    /\ fn.pc = "loop"
    /\ fn.items # {}
    /\ \E v \in fn.items :
          fn' = [fn EXCEPT !.items = fn.items \ {v},
                           !.deleted = IF ~SlicesContains(fn.entries, v)
                                       THEN fn.deleted \cup {v} ELSE fn.deleted,
                           !.cluster = IF ~SlicesContains(fn.entries, v)
                                       THEN fn.cluster \ {v} ELSE fn.cluster]
    /\ UNCHANGED clusterVars

RemovalsReturn ==
    /\ fn.pc = "loop"
    /\ fn.items = {}
    /\ fn' = [fn EXCEPT !.pc = "done", !.result = "ok"]
    /\ UNCHANGED clusterVars

NextRemovals ==
    \/ RemovalsList
    \/ RemovalsVisit
    \/ RemovalsReturn

SpecRemovals == InitRemovals /\ [][NextRemovals]_vars

----------------------------------------------------------------------------

(* A Version whose Module is deleted: the garbage collector deletes the      *)
(* owned Version, which keeps its deletion timestamp while the finalizer is  *)
(* on it, and the Version reconciler is handed the Version again after every *)
(* pass that ended with an error.                                            *)

OrphanVersions ==
    [exists : {TRUE}, finalizer : BOOLEAN, deleting : {FALSE}, fileName : FileIds,
     mcrFull : BOOLEAN]

InitOrphan ==
    /\ ClusterAtRest
    /\ \E version \in OrphanVersions, backend \in {"s3", "fs"}, file \in {Nil, "A"} :
          /\ file # Nil => version.mcrFull /\ version.finalizer
          /\ fn = [pc |-> "idle", moduleExists |-> TRUE, version |-> version,
                   backend |-> backend, file |-> file, result |-> "none",
                   ops |-> <<>>]

\* The user deletes the Module; the garbage collector deletes the Version it
\* owns, which goes at once without a finalizer.
OrphanModuleDeleted ==
    /\ fn.pc = "idle"
    /\ fn.moduleExists
    /\ fn' = [fn EXCEPT !.moduleExists = FALSE,
                        !.version = IF fn.version.finalizer
                                    THEN [fn.version EXCEPT !.deleting = TRUE]
                                    ELSE [fn.version EXCEPT !.exists = FALSE]]
    /\ UNCHANGED clusterVars

\* r.Get of the Version at the start of a pass.
OrphanGetVersion ==
    /\ fn.pc = "idle"
    /\ fn.version.exists
    /\ fn' = [fn EXCEPT !.pc = "parent", !.result = "none", !.ops = <<>>]
    /\ UNCHANGED clusterVars

\* r.Get of the Module named by moduleConfigRef.name, before the branch on
\* the deletion timestamp: its error ends the pass.
OrphanGetModule ==
    /\ fn.pc = "parent"
    /\ IF fn.moduleExists
       THEN fn' = [fn EXCEPT !.pc = "branch"]
       ELSE fn' = [fn EXCEPT !.pc = "idle", !.result = "err"]
    /\ UNCHANGED clusterVars

\* The rest of the pass: the finalizer is added, or the deletion path runs
\* (path, storage Delete, finalizer release), or the archive is synced.
OrphanBranch ==
    /\ fn.pc = "branch"
    /\ IF ~fn.version.deleting /\ ~fn.version.finalizer
       THEN fn' = [fn EXCEPT !.pc = "idle", !.result = "requeue1s",
                             !.version.finalizer = TRUE]
       ELSE IF fn.version.deleting
       THEN IF ~fn.version.mcrFull \/ (fn.backend = "fs" /\ fn.file = Nil)
            THEN fn' = [fn EXCEPT !.pc = "idle", !.result = "err",
                                  !.ops = IF fn.version.mcrFull THEN <<"delete">>
                                          ELSE <<>>]
            ELSE fn' = [fn EXCEPT !.pc = "idle", !.result = "ok",
                                  !.ops = <<"delete">>, !.file = Nil,
                                  !.version.exists = FALSE]
       ELSE fn' = [fn EXCEPT !.pc = "idle", !.result = "ok", !.ops = <<"put">>,
                             !.file = "A", !.version.mcrFull = TRUE]
    /\ UNCHANGED clusterVars

NextOrphan ==
    \/ OrphanModuleDeleted
    \/ OrphanGetVersion
    \/ OrphanGetModule
    \/ OrphanBranch

\* The work queue hands the Version to the worker again and the worker runs
\* the pass to its end.
SpecOrphan ==
    /\ InitOrphan /\ [][NextOrphan]_vars
    /\ SF_vars(OrphanGetVersion)
    /\ SF_vars(OrphanGetModule)
    /\ SF_vars(OrphanBranch)

----------------------------------------------------------------------------

(* The download of a synced Version stored in S3: the registry server builds *)
(* the X-Terraform-Get URL from the Version, the router picks the handler,   *)
(* and the handler reads an object key.  A URL path is the sequence of its   *)
(* segments.  A client may also ask the S3 route directly with a URL of its  *)
(* own making.                                                               *)

\* url.PathEscape of a string: one segment, every "/" written as %2F.
PathEscape(s) == [i \in 1..Len(s) |-> IF s[i] = "/" THEN "%2F" ELSE s[i]]

\* The route of serveModuleFromS3:
\* /kerrareg/modules/v1/download/s3/{bucket}/{region}/{name}/{fileName}.
S3RouteSegments == 5

\* getDownloadModuleUrl for a Version with the S3 block: the download path
\* s3/{bucket}/{region}/{PathEscape(key)}; a nil key is dereferenced.
DownloadPath(bucket, region, key) ==
    IF ~key.set THEN [panic |-> TRUE, segments |-> <<>>]
    ELSE [panic |-> FALSE,
          segments |-> <<<<"s3">>, <<bucket>>, <<region>>, PathEscape(key.val)>>]

\* The router: a path matches the S3 route when it has the route's number of
\* segments behind the common prefix and begins with s3.
RouteS3(segments) ==
    Len(segments) = S3RouteSegments /\ segments[1] = <<"s3">>

InitDownloadUrl ==
    /\ ClusterAtRest
    /\ \E key \in PrefixStrings, name \in {ModuleName, AltName}, fileName \in {"f1", "f2"},
          region \in {"r1", "r2"}, via \in {"endpoint", "direct"} :
          fn = [pc |-> IF via = "endpoint" THEN "url" ELSE "route", via |-> via,
                key |-> key, name |-> name, fileName |-> fileName,
                bucket |-> "bucket", region |-> region,
                storedKey |-> getModuleFilePathIn(
                                  [s3 |-> TRUE, key |-> key, fileSystem |-> FALSE,
                                   directoryPath |-> [set |-> FALSE, val |-> <<>>]],
                                  name, fileName),
                segments |-> IF via = "endpoint" THEN <<>>
                             ELSE <<<<"s3">>, <<"bucket">>, <<region>>, <<name>>,
                                    <<fileName>>>>,
                handler |-> "none", readKey |-> <<>>, result |-> "none"]

\* The download endpoint answers with the header, or panics.
DownloadUrlBuild ==
    /\ fn.pc = "url"
    /\ LET d == DownloadPath(fn.bucket, fn.region, fn.key)
       IN  IF d.panic
           THEN fn' = [fn EXCEPT !.pc = "done", !.result = "panic"]
           ELSE fn' = [fn EXCEPT !.pc = "route", !.segments = d.segments]
    /\ UNCHANGED clusterVars

\* The client follows the URL; the router finds the handler or answers 404.
DownloadUrlRoute ==
    /\ fn.pc = "route"
    /\ IF RouteS3(fn.segments)
       THEN fn' = [fn EXCEPT !.pc = "serve", !.handler = "s3"]
       ELSE fn' = [fn EXCEPT !.pc = "done", !.result = "notFound"]
    /\ UNCHANGED clusterVars

\* serveModuleFromS3: the object key is "{name}/{fileName}" of the URL.
DownloadUrlServe ==
    /\ fn.pc = "serve"
    /\ fn' = [fn EXCEPT !.pc = "done", !.result = "served",
                        !.readKey = fn.segments[4] \o <<"/">> \o fn.segments[5]]
    /\ UNCHANGED clusterVars

NextDownloadUrl ==
    \/ DownloadUrlBuild
    \/ DownloadUrlRoute
    \/ DownloadUrlServe

SpecDownloadUrl == InitDownloadUrl /\ [][NextDownloadUrl]_vars

----------------------------------------------------------------------------

(* Properties. *)

\* The path getModuleFilePath derives from a stored Version.
DerivedPath(k) == getModuleFilePath(children[k].mcrName, children[k].fileName)

\* C1: every Version whose persisted status.synced is true has, at the storage
\* path derived from it, an object whose checksum equals status.checksum; this
\* covers Versions of a Module with immutable = false whose upstream archive
\* changed since the last sync.
C1_SyncedMatchesStorage ==
    \A k \in Keys :
        children[k].exists /\ children[k].synced
            => storage[DerivedPath(k)] = children[k].checksum

\* The main pass of the Version reconciler got as far as the fetch.
SyncFetched ==
    /\ vr.pc = "run"
    /\ ~vr.obj.deleting /\ vr.obj.finalizer
    /\ vr.modFile \notin {NoRef, NoFile}

\* C2: when the Module is immutable and the Version's status.checksum is set,
\* a reconcile whose freshly fetched archive hashes differently hands neither
\* Put nor Delete to storage, and the stored objects stay as they are.
C2_ImmutableNoStorageWrite ==
    [][(/\ SyncFetched
        /\ vr'.pc = "done"
        /\ config.immutable
        /\ vr.obj.checksum # Nil
        /\ upstream[vr.key] # vr.obj.checksum)
       => (/\ storage' = storage
           /\ "put" \notin Range(vr'.ops)
           /\ "delete" \notin Range(vr'.ops))]_vars

\* A reconcile of a synced Version of an immutable Module has met a changed
\* archive and returned at the gate.
C2_Witness ==
    /\ vr.pc = "done" /\ vr.result = "gate"
    /\ config.immutable
    /\ vr.obj.checksum # Nil /\ upstream[vr.key] # vr.obj.checksum

\* C3: in every interleaving of the two reconcilers, a Version leaves the
\* cluster only after a storage Delete for its archive was attempted since its
\* deletion was requested.
C3_RemovedOnlyAfterDelete ==
    [][\A k \in Keys :
          children[k].exists /\ ~children'[k].exists => attempted'[k]]_vars

\* C4: when a Module reconcile has returned success, every entry of
\* spec.versions it processed has its child Version in the cluster, also when
\* the reconcile started without the child.
C4_ChildPerEntry ==
    (mr.pc = "done" /\ mr.result = "ok")
        => \A i \in 1..Len(mr.versions) :
              children[sanitizeModuleVersion(mr.versions[i])].exists

\* The Versions of all entries of spec.versions are synced with the upstream
\* archive, which is stored.
AllSynced ==
    \A i \in 1..Len(module.versions) :
        LET k == sanitizeModuleVersion(module.versions[i])
        IN /\ children[k].exists /\ children[k].synced
           /\ children[k].checksum = upstream[k]
           /\ storage[DerivedPath(k)] = upstream[k]

\* C5: for a freshly created Module whose upstream can be fetched, under fair
\* scheduling every Version of spec.versions is eventually synced, with
\* status.checksum equal to the upstream archive's checksum and the archive in
\* storage.
C5_EventuallySynced == <>AllSynced

\* C6: once an entry has left spec.versions, under fair scheduling and a backend
\* that accepts the Delete, its Version eventually disappears from the cluster.
C6_RemovedEventuallyGone ==
    \A k \in Keys :
        (children[k].exists /\ children[k].version \notin Range(module.versions))
            ~> ~children[k].exists

\* C7: a Version's spec.fileName and the fileName recorded for a version in
\* the Module's status.moduleVersionRefs never change once assigned, also when
\* the Module reconciler's read of the existing child fails.
C7_FileNameStable ==
    [][/\ \A k \in Keys :
             (children[k].exists /\ children'[k].exists
              /\ children[k].fileName # NoFile)
                => children'[k].fileName = children[k].fileName
       /\ \A v \in ClusterVersions :
             (module.refs[v] \in FileIds /\ module'.refs[v] \in FileIds)
                => module'.refs[v] = module.refs[v]]_vars

\* The semver maximum of a non-empty list of version strings.
SemverMax(versions) ==
    CHOOSE x \in Range(versions) : \A y \in Range(versions) : ~SemLess(x, y)

\* C8: after a successful Module reconcile status.latestVersion is the semver
\* maximum of spec.versions written without a leading 'v', for every
\* non-empty list, whether or not its entries carry the 'v'.
C8_LatestIsSanitisedMax ==
    fn.pc = "ret"
        => fn.latest = sanitizeModuleVersion(SemverMax(fn.versions))

\* The tags of a page that satisfy every constraint of the expression, written
\* without the leading 'v'.
SatisfyingTags(constraints, releases) ==
    {VersionString(releases[i]) : i \in
        {j \in 1..Len(releases) :
            \A c \in 1..Len(constraints) : ConstraintCheck(constraints[c], releases[j])}}

\* C9: for every constraint expression over =, !=, >, >=, <, <=, ~> and every
\* list of release tags, the versions the Depot reconciler computes are the
\* tags that satisfy the whole expression, without the leading 'v'.
C9_MatchedIsSatisfying ==
    fn.pc = "ret"
        => Range(fn.versions) = SatisfyingTags(fn.constraints, fn.releases)

\* The orders the constraints of a list can be written in.
Reorderings(constraints) ==
    {[i \in 1..Len(constraints) |-> constraints[p[i]]] :
        p \in {q \in [1..Len(constraints) -> 1..Len(constraints)] :
                  \A a, b \in 1..Len(constraints) : a # b => q[a] # q[b]}}

\* C10: the versions the Depot reconciler computes do not depend on the order
\* the constraints are written in.
C10_OrderIndependent ==
    fn.pc = "ret"
        => \A cs \in Reorderings(fn.constraints) :
              Range(ConstraintLoop(cs, fn.releases, 1, <<>>)) = Range(fn.versions)

\* C11: every cluster write of the two reconcilers is a re-read, mutate, write
\* loop that retries on conflict, so a change of the object between a
\* reconciler's first read and its write never makes the reconcile return a
\* conflict and never makes the write be dropped.
C11_ConflictNeverEscapes ==
    /\ mr.pc = "done" => mr.result # "conflict"
    /\ vr.pc = "done" => vr.result # "conflict" /\ ~(vr.stale /\ vr.dropped)

\* C12: when two writers race on one Module's status.moduleVersionRefs, the
\* one that met the conflict re-applies only its own entries, so once both
\* have written, an entry that only one of them holds is in the stored map.
C12_BothWritersEntriesKept ==
    (/\ fn.pc = "race"
     /\ \A w \in StatusWriters : fn.writers[w].pc = "done"
     /\ \E w \in StatusWriters : fn.writers[w].conflicts > 0)
        => \A w \in StatusWriters : \A v \in ClusterVersions :
              LET mine  == fn.writers[w].moduleVersionRefs[v]
                  other == fn.writers[3 - w].moduleVersionRefs[v]
              IN  (mine # NoRef /\ other = NoRef) => fn.refs[v] = mine

\* C13: the download handler writes the archive's bytes only when the
\* checksum the storage system reports equals the fileChecksum query
\* parameter; when it differs or none is reported the answer is 500 and no
\* byte of the archive is written.
C13_BytesOnlyOnChecksumMatch ==
    (fn.pc = "done" /\ fn.object.exists)
        => IF fn.object.sha256 = fn.checksum
           THEN fn.status = HttpInternalServerError => ~fn.body
           ELSE fn.status = HttpInternalServerError /\ ~fn.body

\* The Version the main pass is at is synced, and nothing has changed since:
\* the reconciler holds the stored object, upstream still has the archive of
\* status.checksum, the Module still gives the fileName and the config the
\* spec carries, and no Delete was ever issued to storage.
SyncedUnchanged ==
    LET cur == children[vr.key]
    IN  /\ SyncFetched
        /\ cur.exists /\ ~vr.stale /\ vr.obj = cur
        /\ cur.synced /\ cur.checksum = upstream[vr.key]
        /\ cur.fileName = vr.modFile
        /\ cur.mcrFull /\ cur.mcrName = ModuleConfigRefName(config)
        /\ \A k \in Keys : ~attempted[k]

\* C14: reconciling a synced Version again, with no change upstream, in the
\* Module or in storage, is a no-op: no Put, no Delete, and the Version's spec
\* and status stay as they are.
C14_ResyncIsNoOp ==
    [][(VersionReconcileSync /\ SyncedUnchanged)
          => (storage' = storage /\ children' = children
              /\ "put" \notin Range(vr'.ops) /\ "delete" \notin Range(vr'.ops))]_vars

\* The main pass is at a Version for which the gate trips, and the cluster
\* still holds the Version as the reconciler read it.
GateTrips ==
    /\ SyncFetched
    /\ children[vr.key].exists /\ ~vr.stale
    /\ ImmutableGate(config.immutable, vr.obj.checksum, upstream[vr.key])

C16_ForceSyncReset ==
    [][(ModuleReconcileFinish /\ module.forceSync /\ mr'.result = "ok")
          => /\ ~module'.forceSync
             /\ config' = config
             /\ config.limit = NoLimit => module'.versions = module.versions]_vars

\* The n semver-highest entries of a spec.versions without duplicates.
HighestEntries(versions, n) ==
    CHOOSE S \in SUBSET Range(versions) :
        /\ Cardinality(S) = n
        /\ \A x \in S : \A y \in Range(versions) \ S : SemLess(y, x)

\* C17: with versionHistoryLimit = N > 0 and more than N entries in
\* spec.versions, a successful Module reconcile leaves the stored spec.versions
\* with exactly the N semver-highest entries, no empty and no extra one, and
\* the children of the entries that were dropped are deleted.
C17_HistoryLimitTrimsSpec ==
    [][(/\ ModuleReconcileFinish /\ mr'.result = "ok"
        /\ config.limit > 0 /\ Len(module.versions) > config.limit
        /\ mr.spec = module.versions)
          => LET keep == HighestEntries(module.versions, config.limit)
             IN  /\ Len(module'.versions) = config.limit
                 /\ Range(module'.versions) = keep
                 /\ \A k \in Keys :
                       (children[k].exists /\ children[k].version \notin keep)
                           => (~children'[k].exists \/ children'[k].deleting)]_vars

BothRefsReached ==
    /\ SyncFetched
    /\ vr.obj.pcr
    /\ children[vr.key].exists /\ ~vr.stale

NoBackendAtStorage ==
    /\ SyncFetched
    /\ ~BothRefsDefined(TRUE, vr.obj.pcr)
    /\ ~ImmutableGate(config.immutable, vr.obj.checksum, upstream[vr.key])
    /\ config.backend = "none"

C21_ModuleCreatedOrUpdated ==
    (fn.pc = "done" /\ fn.client # Nil)
        => /\ fn.result = "ok"
           /\ fn.stored.exists
           /\ fn.stored.moduleConfig = fn.moduleConfig
           /\ fn.stored.versions = fn.matchedVersions

\* C29: a module config with useAuthenticatedClient = false is reconciled
\* with the anonymous client and without a read of the credential secret, so
\* the pass does not fail for a secret that is not in the Depot's namespace.
C29_AnonymousNeedsNoSecret ==
    (/\ fn.pc = "done"
     /\ fn.moduleConfig.githubClientConfig = "false"
     /\ fn.secret = "unreadable")
        => /\ ~fn.secretRead
           /\ fn.client = "anonymous"
           /\ fn.existed => fn.result = "ok"

\* C22: a Version reconcile past the finalizer stage that finds no fileName
\* for its version in the Module's status.moduleVersionRefs, the entry being
\* absent or without fileName, returns requeueAfter = 10s without error and
\* fetches nothing, hands nothing to storage and writes nothing to the Version.
C22_HandshakeRequeues ==
    [][(/\ VersionReconcileSync
        /\ ~vr.obj.deleting /\ vr.obj.finalizer
        /\ vr.modFile \in {NoRef, NoFile})
          => /\ vr'.result = "requeue10s"
             /\ ~vr'.fetched /\ vr'.ops = <<>>
             /\ storage' = storage
             /\ children' = children]_vars

\* The path the deletion pass derives from the Version it read.
DeletePath == getModuleFilePath(vr.obj.mcrName, vr.obj.fileName)

\* os.Remove of the filesystem backend finds no file at the path.
RemoveFindsNoFile ==
    vr.obj.mcrFull /\ config.backend = "fs" /\ storage[DeletePath] = Nil

\* C23: in the deletion path the finalizer leaves the Version only after the
\* storage Delete returned success; when the Delete fails the pass returns
\* the error, the finalizer stays and the Version remains in the cluster.
C23_FinalizerAfterDelete ==
    [][VersionReconcileDelete
          => /\ children'[vr.key] # children[vr.key]
                   => (/\ ~RemoveFindsNoFile
                       /\ vr'.ops = <<"delete">>
                       /\ storage'[DeletePath] = Nil)
             /\ RemoveFindsNoFile
                   => (/\ vr'.result = "err"
                       /\ children' = children
                       /\ children'[vr.key].finalizer)]_vars

\* The Delete failed on the filesystem and the Version is still there with
\* its finalizer.
C23_Witness ==
    /\ vr.pc = "done" /\ vr.result = "err" /\ vr.ops = <<"delete">>
    /\ config.backend = "fs"
    /\ children[vr.key].exists /\ children[vr.key].finalizer
    /\ children[vr.key].deleting

\* C24: a pass over a Version with no deletion timestamp and no finalizer
\* puts the finalizer on the object as re-read from the cluster, returns
\* requeueAfter = 1s, and fetches nothing, calls no storage method and
\* writes no status.
C24_FinalizerPassOnly ==
    [][(VersionReconcileAddFinalizer /\ children[vr.key].exists)
          => /\ children' = [children EXCEPT ![vr.key].finalizer = TRUE]
             /\ vr'.result = "requeue1s"
             /\ vr'.ops = <<>> /\ ~vr'.fetched
             /\ storage' = storage]_vars

\* The finalizer pass ended with the 1s requeue on an object that another
\* writer had changed after the first read.
C24_Witness ==
    /\ vr.pc = "done" /\ vr.result = "requeue1s"
    /\ children[vr.key].finalizer
    /\ children[vr.key] # [vr.obj EXCEPT !.finalizer = TRUE]

\* The path the main pass derives for the Version it read.
SyncPath == getModuleFilePath(ModuleConfigRefName(config), vr.modFile)

\* The main pass reaches its storage step.
StorageStepReached ==
    /\ VersionReconcileSync
    /\ vr.modFile \notin {NoRef, NoFile}
    /\ ~BothRefsDefined(TRUE, vr.obj.pcr)
    /\ ~ImmutableGate(config.immutable, vr.obj.checksum, upstream[vr.key])
    /\ config.backend \in {"fs", "s3"}

\* C25: the storage action of a pass is a Put when status.checksum is nil;
\* otherwise a Get, followed by a Put exactly when the file is missing or
\* its checksum differs from status.checksum, and no storage write when the
\* file exists with a matching checksum.
C25_StorageAction ==
    [][StorageStepReached
          => IF vr.obj.checksum = Nil
             THEN Range(vr'.ops) = {"put"}
             ELSE /\ vr'.ops[1] = "get"
                  /\ ("put" \in Range(vr'.ops))
                        <=> (storage[SyncPath] = Nil
                             \/ storage[SyncPath] # vr.obj.checksum)
                  /\ storage[SyncPath] = vr.obj.checksum => storage' = storage]_vars

\* C26: whenever a pass completes its storage step and returns without
\* error, the Version in the cluster has status.synced = true, status.checksum
\* = the fetched archiveChecksum and the syncStatus of success, also when the
\* spec persist of the same pass or another writer changed the object after
\* the first read.
C26_SuccessMeansStatusWritten ==
    (vr.pc = "done" /\ vr.result = "ok" /\ vr.ops # <<>>)
        => /\ children[vr.key].synced
           /\ children[vr.key].checksum = upstream[vr.key]
           /\ children[vr.key].syncStatus = "ok"

\* C27: when the upstream archive fetch fails, the pass records the failure
\* in status.syncStatus, issues no storage operation and returns a result
\* that requeues the Version after a fixed 30 seconds.
C27_FetchFailureRequeues ==
    (fn.pc = "done" /\ fn.fetchErr)
        => /\ fn.ops = <<>>
           /\ ~fn.stale => fn.stored.syncStatus = "fetchFailed"
           /\ fn.requeueAfter = defaultRequeueDuration

\* C28: every Put the Version reconciler hands to a storage backend carries
\* archiveChecksum set to the base64 SHA-256 of the fileBytes of the same
\* operation.
C28_PutCarriesChecksum ==
    \A i \in 1..Len(fn.ops) :
        fn.ops[i].method = "put"
            => fn.ops[i].archiveChecksum = Sha256Base64(fn.ops[i].fileBytes)

\* The prefix the user supplied: the S3 key, else the filesystem directory.
SuppliedPrefix ==
    IF fn.storageConfig.s3 /\ fn.storageConfig.key.set THEN fn.storageConfig.key
    ELSE IF fn.storageConfig.fileSystem /\ fn.storageConfig.directoryPath.set
    THEN fn.storageConfig.directoryPath
    ELSE [set |-> FALSE, val |-> <<>>]

\* A string without its trailing slash.
TrimTrailingSlash(s) ==
    IF Len(s) > 0 /\ s[Len(s)] \in {"/", "\\"} THEN SubSeq(s, 1, Len(s) - 1) ELSE s

\* C30: the storage path derived for a Version is
\* {prefix}/{moduleName}/{fileName} with the user-supplied S3 key or
\* filesystem directory, its trailing slash removed, as prefix, and
\* {moduleName}/{fileName} when no prefix is supplied; moduleName is
\* moduleConfig.Name if set and the Module object's name otherwise.
C30_StoragePath ==
    fn.pc = "done"
        => LET moduleName == IF fn.moduleConfigName # Nil THEN fn.moduleConfigName
                             ELSE fn.objectName
           IN  /\ ~fn.panic /\ ~fn.err
               /\ fn.path = IF SuppliedPrefix.set
                            THEN TrimTrailingSlash(SuppliedPrefix.val)
                                 \o <<"/", moduleName, "/", fn.fileName>>
                            ELSE <<moduleName, "/", fn.fileName>>

\* C31: on every pass the Version reconciler resolves as parent the Module
\* that created the Version, also when moduleConfig.name differs from the
\* Module object's name and after moduleConfigRef was persisted on the
\* Version.
C31_ParentResolved ==
    [][\A k \in Keys :
          VersionReconcileBegin(k) => (vr'.pc = "run" /\ vr'.result # "err")]_vars

\* A pass arrives at InitStorageFactory: in the deletion path, or in the main
\* path behind the handshake, the reference check and the gate.
FactoryReached ==
    \/ VersionReconcileDelete /\ vr.obj.mcrFull
    \/ /\ VersionReconcileSync
       /\ vr.modFile \notin {NoRef, NoFile}
       /\ ~BothRefsDefined(TRUE, vr.obj.pcr)
       /\ ~ImmutableGate(config.immutable, vr.obj.checksum, upstream[vr.key])

\* C32: with exactly one of the S3, Azure, GCS or Filesystem tags populated
\* the Version reconciler constructs that backend and dispatches its Get,
\* Put and Delete operations to it.
C32_EveryTagDispatches ==
    [][(FactoryReached /\ config.backend \in StorageTags) => vr'.ops # <<>>]_vars

\* C33: the Module reconciler's update of an existing child Version leaves
\* the child's finalizers, spec.fileName and spec.version as they were (the
\* labels and the owner reference are rebuilt to the same values).
C33_ChildUpdateFrame ==
    [][(ModuleReconcileUpdateChild /\ children'[MrKey] # children[MrKey])
          => /\ children'[MrKey].exists
             /\ children'[MrKey].finalizer = children[MrKey].finalizer
             /\ children'[MrKey].fileName = children[MrKey].fileName
             /\ children'[MrKey].version = children[MrKey].version]_vars

\* The key at which the archive of a stored Version was last Put: the main
\* pass Puts at the path of moduleConfigRef.name and the Module's fileName
\* and persists that fileName on the Version in the same pass.
LastPutPath(k) == getModuleFilePath(ModuleConfigRefName(config), children[k].fileName)

\* The deletion pass hands a Delete to the backend.
DeleteDispatched == VersionReconcileDelete /\ vr'.ops = <<"delete">>

\* C34: the key the finalizer's Delete targets is the key at which the
\* Version's archive was last Put, and no archive that was Put for a Version
\* remains in storage once the Version has left the cluster.
C34_NoArchiveOutlivesVersion ==
    [][/\ DeleteDispatched => DeletePath = LastPutPath(vr.key)
       /\ \A k \in Keys :
             (children[k].exists /\ ~children'[k].exists)
                 => storage'[LastPutPath(k)] = Nil]_vars

\* C35: ReconcileVersionRemovals deletes a child Version only if its version
\* string is in no entry of spec.versions, whatever other fields the entry
\* carries.
C35_ListedNeverDeleted ==
    \A v \in fn.deleted : \A i \in 1..Len(fn.entries) : fn.entries[i].version # v

\* The Puts among the storage methods of the pass that just ended.
PutsOfPass == {i \in 1..Len(vr.ops) : vr.ops[i] = "put"}

\* C36: one Version pass uploads the archive at most once, in the
\* never-synced case as well as in the missing-file and checksum-mismatch
\* cases.
C36_AtMostOnePut ==
    vr.pc = "done" => Cardinality(PutsOfPass) <= 1

\* C37: a Version with a deletion timestamp and the finalizer reaches the
\* storage Delete and the release of the finalizer also when its Module no
\* longer exists, so it does not stay in the cluster forever.
C37_OrphanEventuallyGone ==
    (fn.version.exists /\ fn.version.deleting /\ fn.version.finalizer
     /\ ~fn.moduleExists)
        ~> ~fn.version.exists

\* C38: for a synced Version stored in S3 the URL of X-Terraform-Get is
\* routed to the S3 download handler, and the key the handler reads is the
\* key at which the Version reconciler stored the archive, with and without
\* a user-supplied key prefix.
C38_DownloadReadsStoredKey ==
    (fn.pc = "done" /\ fn.via = "endpoint" /\ ~fn.storedKey.panic)
        => /\ fn.handler = "s3"
           /\ fn.readKey = fn.storedKey.path

\* C39: when every entry has been removed from spec.versions, the Module
\* reconcile completes without crash or error and deletes all remaining
\* child Versions of the Module.
C39_EmptySpecStillRemoves ==
    [][(ModuleReconcileFinish /\ Len(mr.spec) = 0)
          => /\ mr'.result = "ok"
             /\ \A k \in Keys :
                   children[k].exists => children'[k] = ApiDelete(children[k])]_vars

\* C40: at every point during and after a Module reconcile, also one that
\* aborts part-way, status.moduleVersionRefs holds an entry with a fileName
\* for every version of spec.versions whose child existed before the
\* reconcile began.
C40_RefsNeverStranded ==
    mr.pc # "idle"
        => \A v \in mr.had \cap Range(module.versions) :
              module.refs[v] \notin {NoRef, NoFile}

====
